---- MODULE Spec2Model ----
(***************************************************************************)
(* Model of build-mart-experiment-tools:                                   *)
(*   latin_square_assigner.py  latin_square, assign_teams, main's seeding  *)
(*   aipm_service.py           handle_metrics, generate_message            *)
(*                                                                         *)
(* Python lists are sequences (1-based here, holding the 0-based values    *)
(* of the program); a dict is the sequence of its <<key, value>> items in  *)
(* insertion order; Optional values are <<>> (None) or <<v>>.              *)
(***************************************************************************)
EXTENDS Integers, Sequences, FiniteSets, TLC

\* ---------------------------------------------------------------- bounds
MaxTeams == 6
MaxK == 3
MaxSeed == 2
StreamLen == 12
MaxRunTeams == 4
MaxClock == 21

\* ------------------------------------------------------------ input sets
Labels == {"Control", "HPM"}
Canonical == <<"Control", "HPM", "AIPM", "Solo", "Pair">>
Seeds == 0..MaxSeed
AllThreads == {1, 2}

\* Lists of distinct labels: prefixes of the canonical order and one rotation.
DistinctLists == {SubSeq(Canonical, 1, k) : k \in 1..MaxK}
                   \cup {<<"AIPM", "Control", "HPM">>}
\* The distinct lists, and every list of at most MaxK of two labels: the
\* empty list and lists with duplicate labels included.
CondLists == DistinctLists \cup UNION {[1..k -> Labels] : k \in 0..MaxK}

\* num_teams is any integer from -2 on
Inputs == ((-2)..MaxTeams) \X CondLists
\* the runs compared with one another for reproducibility
RunInputs == (0..MaxRunTeams) \X DistinctLists
\* the calls threads make concurrently: one block of three, two blocks of
\* two, and a call that is rejected
ConcInputs == {<<3, <<"Control", "HPM", "AIPM">>>>,
               <<4, <<"Control", "HPM">>>>,
               <<2, <<"Control", "HPM", "AIPM">>>>}

\* --------------------------------------------------------------- helpers
None == <<>>
Some(v) == <<v>>
Range(s) == {s[p] : p \in DOMAIN s}
IsPermutationOf(s, S) == Len(s) = Cardinality(S) /\ Range(s) = S

\* dict: the items in insertion order
EmptyDict == <<>>
Keys(d) == {d[p][1] : p \in DOMAIN d}
Lookup(d, key) == d[CHOOSE p \in DOMAIN d : d[p][1] = key][2]
\* d[key] = value: a present key keeps its place, a new key is appended
DictSet(d, key, value) ==
  IF key \in Keys(d)
  THEN [p \in DOMAIN d |-> IF d[p][1] = key THEN <<key, value>> ELSE d[p]]
  ELSE Append(d, <<key, value>>)
\* dict equality in Python ignores the order of the items
AsMapping(d) == [key \in Keys(d) |-> Lookup(d, key)]

\* ------------------------------------------------- latin_square_assigner
\* mutants of latin_square: i * j for i + j; i + i for i + j
latin_square_product(n) ==
  [i \in 1..n |-> [j \in 1..n |-> ((i - 1) * (j - 1)) % n]]
latin_square_row_only(n) ==
  [i \in 1..n |-> [j \in 1..n |-> ((i - 1) + (i - 1)) % n]]
\* latin_square(n): row i, column j holds (i + j) mod n, i, j from 0
latin_square(n) ==
  [i \in 1..n |-> [j \in 1..n |-> ((i - 1) + (j - 1)) % n]]

\* f"Team {team_no + 1}"
TeamName(team_no) == "Team " \o ToString(team_no + 1)

\* the ValueError's message
ErrorMessage(n, k) ==
  "Number of teams (" \o ToString(n)
    \o ") must be a multiple of the number of conditions ("
    \o ToString(k) \o ")."

\* mutant of NotMultiple: only too few teams are refused
NotMultiple_too_few(n, k) == n < k
\* num_teams % k != 0
NotMultiple(n, k) == n % k # 0

\* mutant of TeamAt: the block's offset is not scaled by k
TeamAt_unscaled(indices, b, k, r) == indices[b + r + 1]
\* team_indices[block * k + row_idx]
TeamAt(indices, b, k, r) == indices[b * k + r + 1]

\* mutant of SequenceFor: the row is read from its end
SequenceFor_reversed(conds, row) ==
  [c \in 1..Len(row) |-> conds[row[Len(row) - c + 1] + 1]]
\* [conditions[col] for col in row]
SequenceFor(conds, row) == [c \in 1..Len(row) |-> conds[row[c] + 1]]

\* mutant of Swap: x[i] = x[j] alone, the old x[i] is lost
Swap_overwrite(x, i, j) == [p \in DOMAIN x |-> IF p = i + 1 THEN x[j + 1] ELSE x[p]]
\* x[i], x[j] = x[j], x[i]   (i, j 0-based)
Swap(x, i, j) ==
  [p \in DOMAIN x |-> IF p = i + 1 THEN x[j + 1]
                      ELSE IF p = j + 1 THEN x[i + 1] ELSE x[p]]

\* The shared random source, the Mersenne Twister of the random module.
\* Its state is unknown until random.seed is called (the interpreter seeds
\* it from the operating system): a word of an unseeded source may be any
\* word.  After random.seed(s) the state is the seed and the number of
\* 32-bit words taken since; TwisterWords holds the top four bits of the
\* first words after random.seed(0) .. random.seed(3).  The model follows a
\* seeded source for StreamLen words.
TwisterWords ==
  << <<13, 6, 12, 14, 6, 0, 4, 15, 8, 7, 6, 14, 12, 13, 4, 15, 7, 5, 9, 14>>,
     <<2, 9, 13, 12, 12, 1, 4, 1, 7, 12, 7, 7, 10, 6, 12, 3, 1, 7, 0, 14>>,
     <<15, 13, 15, 13, 0, 1, 1, 5, 13, 2, 11, 12, 10, 13, 4, 4, 9, 3, 9, 0>>,
     <<3, 9, 8, 2, 5, 14, 9, 7, 10, 9, 1, 9, 0, 14, 13, 7, 4, 8, 3, 3>> >>
Unseeded == [seeded |-> FALSE, seed |-> 0, pos |-> 0]
SeedState(s) == [seeded |-> TRUE, seed |-> s, pos |-> 0]
Advance(r) == [r EXCEPT !.pos = @ + 1]
\* n.bit_length()
RECURSIVE BitLength(_)
BitLength(n) == IF n = 0 THEN 0 ELSE 1 + BitLength(n \div 2)
\* getrandbits(k), k <= 4: the top k bits of the next word, as the
\* <<value, next state>> pairs it may produce
GetRandBits(r, k) ==
  IF r.seeded
  THEN IF r.pos < StreamLen
       THEN {<<TwisterWords[r.seed + 1][r.pos + 1] \div (2 ^ (4 - k)),
               Advance(r)>>}
       ELSE {}
  ELSE {<<v, r>> : v \in 0..((2 ^ k) - 1)}

\* mutant of SeedRng: the seed is parsed and never applied
SeedRng_ignored(r, s) == r
\* main: if args.seed is not None: random.seed(args.seed)
SeedRng(r, s) == SeedState(s)

NoOutcome == [kind |-> "none", exc |-> "", message |-> "", value |-> EmptyDict]
Returned(d) == [kind |-> "returned", exc |-> "", message |-> "", value |-> d]
Raised(e, m) == [kind |-> "raised", exc |-> e, message |-> m, value |-> EmptyDict]

VARIABLES
  rng,              \* state of the process-wide random source
  pc,               \* per thread: "idle", "shuffle", "swap", "assign", "done"
  num_teams,        \* per thread: argument
  conditions,       \* per thread: argument
  square,           \* per thread: the base square
  teams_per_square, \* per thread
  team_indices,     \* per thread: the list being shuffled
  shuffle_i,        \* per thread: random.shuffle's loop index i
  shuffle_j,        \* per thread: random.shuffle's drawn index j
  block,            \* per thread: outer loop index
  row_idx,          \* per thread: inner loop index
  assignments,      \* per thread: the dict being built
  outcome,          \* per thread: what the call returned or raised
  seedCtx,          \* history: seed in force and the calls made under it
  callCtx,          \* history, per thread: seedCtx and rng when the call began
  disturbed,        \* history, per thread: another thread used the source
                    \*   while this call was shuffling
  ref,              \* history: one remembered freshly seeded run
  _last_response_time,  \* aipm_service: module global
  response,         \* aipm_service: the message of the last response
  monotone,         \* aipm_service: history, clock readings never went back
  sent,             \* aipm_service: history, times of non-empty responses
  request           \* aipm_service: history, the last request handled

frame == <<num_teams, conditions, square, teams_per_square, team_indices,
           shuffle_i, shuffle_j, block, row_idx, assignments>>
program == <<rng, pc, frame, outcome>>
history == <<seedCtx, callCtx, disturbed, ref>>
service == <<_last_response_time, response, monotone, sent, request>>
vars == <<program, history, service>>

NoSeed == [seed |-> None, valid |-> FALSE, rejected |-> FALSE]
NoCall == [ctx |-> NoSeed, rng |-> Unseeded]
NoRequest == [handled |-> FALSE, now |-> 0, before |-> None,
              recent |-> None, throttled |-> 0]

Init ==
  /\ rng = Unseeded
  /\ pc = [t \in AllThreads |-> "idle"]
  /\ num_teams = [t \in AllThreads |-> 0]
  /\ conditions = [t \in AllThreads |-> <<>>]
  /\ square = [t \in AllThreads |-> <<>>]
  /\ teams_per_square = [t \in AllThreads |-> 0]
  /\ team_indices = [t \in AllThreads |-> <<>>]
  /\ shuffle_i = [t \in AllThreads |-> 0]
  /\ shuffle_j = [t \in AllThreads |-> 0]
  /\ block = [t \in AllThreads |-> 0]
  /\ row_idx = [t \in AllThreads |-> 0]
  /\ assignments = [t \in AllThreads |-> EmptyDict]
  /\ outcome = [t \in AllThreads |-> NoOutcome]
  /\ seedCtx = NoSeed
  /\ callCtx = [t \in AllThreads |-> NoCall]
  /\ disturbed = [t \in AllThreads |-> FALSE]
  /\ ref = None
  /\ _last_response_time = None
  /\ response = None
  /\ monotone = TRUE
  /\ sent = <<>>
  /\ request = NoRequest

\* main, lines 78-79: random.seed(args.seed), by a caller not inside a call
Seed(t, s) ==
  /\ pc[t] = "idle"
  /\ rng' = SeedRng(rng, s)
  /\ UNCHANGED <<pc, frame, outcome, service>>

\* mutant of Reject: the list is shuffled before the check, so a rejected
\* call has drawn from the source
Reject_after_shuffle(t, n, conds) ==
  /\ pc' = [pc EXCEPT ![t] = "done"]
  /\ outcome' = [outcome EXCEPT ![t] =
       IF Len(conds) = 0
       THEN Raised("ZeroDivisionError", "integer modulo by zero")
       ELSE Raised("ValueError", ErrorMessage(n, Len(conds)))]
  /\ rng' = IF rng.seeded /\ n >= 2 THEN Advance(rng) ELSE rng
  /\ UNCHANGED <<square, teams_per_square, team_indices, shuffle_i,
                 shuffle_j, block, row_idx, assignments>>

\* assign_teams, lines 48-52: k = len(conditions); the failing paths
Reject(t, n, conds) ==
  /\ pc' = [pc EXCEPT ![t] = "done"]
  /\ outcome' = [outcome EXCEPT ![t] =
       IF Len(conds) = 0
       THEN Raised("ZeroDivisionError", "integer modulo by zero")
       ELSE Raised("ValueError", ErrorMessage(n, Len(conds)))]
  /\ UNCHANGED <<rng, square, teams_per_square, team_indices, shuffle_i,
                 shuffle_j, block, row_idx, assignments>>

\* assign_teams, lines 54-57: the locals, up to the call of random.shuffle;
\* a list of fewer than two indices is shuffled without a draw, and with no
\* team the loops end at once
Accept(t, n, conds) ==
  /\ square' = [square EXCEPT ![t] = latin_square(Len(conds))]
  /\ assignments' = [assignments EXCEPT ![t] = EmptyDict]
  /\ teams_per_square' = [teams_per_square EXCEPT ![t] = n \div Len(conds)]
  /\ team_indices' = [team_indices EXCEPT ![t] = [p \in 1..n |-> p - 1]]
  /\ shuffle_i' = [shuffle_i EXCEPT ![t] = n - 1]
  /\ shuffle_j' = [shuffle_j EXCEPT ![t] = 0]
  /\ block' = [block EXCEPT ![t] = 0]
  /\ row_idx' = [row_idx EXCEPT ![t] = 0]
  /\ pc' = [pc EXCEPT ![t] = IF n - 1 >= 1 THEN "shuffle"
                             ELSE IF n \div Len(conds) > 0 THEN "assign"
                             ELSE "done"]
  /\ outcome' = [outcome EXCEPT ![t] =
       IF n \div Len(conds) > 0 THEN NoOutcome ELSE Returned(EmptyDict)]
  /\ UNCHANGED rng

\* assign_teams(num_teams, conditions), entered by an idle thread
Call(t, n, conds) ==
  /\ pc[t] = "idle"
  /\ num_teams' = [num_teams EXCEPT ![t] = n]
  /\ conditions' = [conditions EXCEPT ![t] = conds]
  /\ IF Len(conds) = 0 \/ NotMultiple(n, Len(conds))
     THEN Reject(t, n, conds)
     ELSE Accept(t, n, conds)
  /\ UNCHANGED service

\* random.shuffle, for i in reversed(range(1, len(x))): one call of
\* getrandbits in j = randbelow(i + 1), which is
\*   k = n.bit_length(); r = getrandbits(k); while r >= n: r = getrandbits(k)
\* A word of n or more is dropped and the next call draws again; the
\* interpreter may run another thread between two calls.
DrawStep(t) ==
  /\ pc[t] = "shuffle"
  /\ \E d \in GetRandBits(rng, BitLength(shuffle_i[t] + 1)) :
       /\ rng' = d[2]
       /\ IF d[1] >= shuffle_i[t] + 1
          THEN UNCHANGED <<pc, shuffle_j>>
          ELSE /\ shuffle_j' = [shuffle_j EXCEPT ![t] = d[1]]
               /\ pc' = [pc EXCEPT ![t] = "swap"]
  /\ UNCHANGED <<num_teams, conditions, square, teams_per_square,
                 team_indices, shuffle_i, block, row_idx, assignments,
                 outcome, service>>

\* random.shuffle: x[i], x[j] = x[j], x[i], and the loop goes on or ends
SwapStep(t) ==
  /\ pc[t] = "swap"
  /\ team_indices' = [team_indices EXCEPT ![t] =
                        Swap(team_indices[t], shuffle_i[t], shuffle_j[t])]
  /\ shuffle_i' = [shuffle_i EXCEPT ![t] = shuffle_i[t] - 1]
  /\ pc' = [pc EXCEPT ![t] = IF shuffle_i[t] - 1 >= 1 THEN "shuffle"
                             ELSE "assign"]
  /\ UNCHANGED <<rng, num_teams, conditions, square, teams_per_square,
                 shuffle_j, block, row_idx, assignments, outcome, service>>

\* assign_teams, lines 60-66: one iteration of the inner loop, and the
\* return after the last
AssignStep(t) ==
  /\ pc[t] = "assign"
  /\ LET k == Len(conditions[t])
         team_no == TeamAt(team_indices[t], block[t], k, row_idx[t])
         row == square[t][row_idx[t] + 1]
         dict == DictSet(assignments[t], TeamName(team_no),
                         SequenceFor(conditions[t], row))
         lastRow == row_idx[t] + 1 = k
         lastBlock == block[t] + 1 = teams_per_square[t]
     IN  /\ assignments' = [assignments EXCEPT ![t] = dict]
         /\ row_idx' = [row_idx EXCEPT ![t] = IF lastRow THEN 0 ELSE @ + 1]
         /\ block' = [block EXCEPT ![t] = IF lastRow THEN @ + 1 ELSE @]
         /\ pc' = [pc EXCEPT ![t] =
                     IF lastRow /\ lastBlock THEN "done" ELSE "assign"]
         /\ outcome' = [outcome EXCEPT ![t] =
                     IF lastRow /\ lastBlock THEN Returned(dict) ELSE @]
  /\ UNCHANGED <<rng, num_teams, conditions, square, teams_per_square,
                 team_indices, shuffle_i, shuffle_j, service>>

\* the caller takes the result (main prints it) and the frame is gone
Finish(t) ==
  /\ pc[t] = "done"
  /\ pc' = [pc EXCEPT ![t] = "idle"]
  /\ num_teams' = [num_teams EXCEPT ![t] = 0]
  /\ conditions' = [conditions EXCEPT ![t] = <<>>]
  /\ square' = [square EXCEPT ![t] = <<>>]
  /\ teams_per_square' = [teams_per_square EXCEPT ![t] = 0]
  /\ team_indices' = [team_indices EXCEPT ![t] = <<>>]
  /\ shuffle_i' = [shuffle_i EXCEPT ![t] = 0]
  /\ shuffle_j' = [shuffle_j EXCEPT ![t] = 0]
  /\ block' = [block EXCEPT ![t] = 0]
  /\ row_idx' = [row_idx EXCEPT ![t] = 0]
  /\ assignments' = [assignments EXCEPT ![t] = EmptyDict]
  /\ outcome' = [outcome EXCEPT ![t] = NoOutcome]
  /\ UNCHANGED <<rng, service>>

\* ---------------------------------------------------------- aipm_service
_min_interval == 10

Payloads == {<<>>, <<<<"progress", 40>>, <<"builds", 2>>>>}

\* ", ".join(parts)
RECURSIVE Join(_)
Join(parts) ==
  IF Len(parts) = 0 THEN ""
  ELSE IF Len(parts) = 1 THEN parts[1]
  ELSE parts[1] \o ", " \o Join(Tail(parts))

\* generate_message: the items of the dict as "k=v", joined, after a prefix
generate_message(metrics) ==
  "Received metrics: "
    \o Join([p \in DOMAIN metrics |->
               metrics[p][1] \o "=" \o ToString(metrics[p][2])])

\* mutant of TooSoon: the comparison is turned around
TooSoon_inverted(last, now) == last # None /\ now - last[1] > _min_interval
\* _last_response_time is not None and now - _last_response_time < _min_interval
TooSoon(last, now) == last # None /\ now - last[1] < _min_interval

\* mutant of handle_metrics: a throttled request restarts the interval
handle_metrics_sliding(data, now) ==
  /\ _last_response_time' = Some(now)
  /\ response' = IF TooSoon(_last_response_time, now) THEN Some("")
                 ELSE Some(generate_message(data))
  /\ UNCHANGED <<program, history>>

\* POST /metrics: the handler has no await, so it runs as one step of the
\* event loop; now is the reading of datetime.utcnow(), in seconds
handle_metrics(data, now) ==
  /\ IF TooSoon(_last_response_time, now)
     THEN /\ response' = Some("")
          /\ UNCHANGED _last_response_time
     ELSE /\ _last_response_time' = Some(now)
          /\ response' = Some(generate_message(data))
  /\ UNCHANGED <<program, history>>

\* ------------------------------------------------------- history variables
\* (they record what the program did and never influence it)
Untracked == UNCHANGED history

\* a seed starts a new context
TrackSeed(s) ==
  /\ seedCtx' = [seed |-> Some(s), valid |-> FALSE, rejected |-> FALSE]
  /\ UNCHANGED <<callCtx, disturbed, ref>>

\* a call remembers the context it began in, and marks the context
TrackCall(t) ==
  /\ callCtx' = [callCtx EXCEPT ![t] = [ctx |-> seedCtx, rng |-> rng]]
  /\ seedCtx' = IF seedCtx.seed = None THEN seedCtx
                ELSE IF outcome'[t].kind = "raised"
                THEN [seedCtx EXCEPT !.rejected = TRUE]
                ELSE [seedCtx EXCEPT !.valid = TRUE]
  /\ UNCHANGED <<disturbed, ref>>

\* the result of a freshly seeded run is remembered when the caller takes it
Fresh(ctx) == ctx.seed # None /\ ~ctx.valid /\ ~ctx.rejected
TrackRemember(t) ==
  /\ outcome[t].kind = "returned"
  /\ Fresh(callCtx[t].ctx)
  /\ ref = None
  /\ ref' = Some([seed |-> callCtx[t].ctx.seed[1], num_teams |-> num_teams[t],
                  conditions |-> conditions[t], value |-> outcome[t].value])
  /\ callCtx' = [callCtx EXCEPT ![t] = NoCall]
  /\ UNCHANGED <<seedCtx, disturbed>>

TrackFinish(t) ==
  /\ callCtx' = [callCtx EXCEPT ![t] = NoCall]
  /\ UNCHANGED <<seedCtx, disturbed, ref>>

\* thread t used the random source: the calls of other threads that have
\* draws of their shuffle to come are disturbed
TrackUse(t) ==
  /\ disturbed' = [u \in AllThreads |->
                     \/ disturbed[u]
                     \/ u # t /\ pc[u] = "shuffle"
                     \/ u # t /\ pc[u] = "swap" /\ shuffle_i[u] > 1]
  /\ UNCHANGED <<seedCtx, callCtx, ref>>

TrackEnter(t) ==
  /\ disturbed' = [disturbed EXCEPT ![t] = FALSE]
  /\ UNCHANGED <<seedCtx, callCtx, ref>>

\* the request handled, beside what the handler answered
TrackRequest(now) ==
  /\ sent' = IF response' = Some("") THEN sent ELSE Append(sent, now)
  /\ request' =
       [handled |-> TRUE, now |-> now, before |-> _last_response_time,
        recent |-> IF sent = <<>> THEN None ELSE Some(sent[Len(sent)]),
        throttled |-> IF response # Some("") THEN 0
                      ELSE IF request.throttled >= 2 THEN 2
                      ELSE request.throttled + 1]
  /\ monotone' = (monotone /\ (request.handled => now >= request.now))

\* ---------------------------------------------------------- specifications
\* One caller, as main is: seed or not, call, take the result.
Next ==
  \/ \E s \in Seeds : Seed(1, s) /\ Untracked
  \/ \E in \in Inputs : Call(1, in[1], in[2]) /\ Untracked
  \/ DrawStep(1) /\ Untracked
  \/ SwapStep(1) /\ Untracked
  \/ AssignStep(1) /\ Untracked
  \/ Finish(1) /\ Untracked

Spec == Init /\ [][Next]_vars

\* Runs of the one caller under comparison: the first freshly seeded run is
\* remembered.
NextRuns ==
  \/ \E s \in Seeds : Seed(1, s) /\ TrackSeed(s)
  \/ \E in \in RunInputs : Call(1, in[1], in[2]) /\ TrackCall(1)
  \/ DrawStep(1) /\ Untracked
  \/ SwapStep(1) /\ Untracked
  \/ AssignStep(1) /\ Untracked
  \/ Finish(1) /\ TrackFinish(1)
  \/ Finish(1) /\ TrackRemember(1)

SpecRuns == Init /\ [][NextRuns]_vars

\* Threads calling assign_teams against the one random source; the
\* interpreter switches threads between the calls of getrandbits and the
\* swaps of random.shuffle.
NextConc ==
  \E t \in AllThreads :
    \/ \E s \in Seeds : Seed(t, s) /\ TrackUse(t)
    \/ \E in \in ConcInputs : Call(t, in[1], in[2]) /\ TrackEnter(t)
    \/ DrawStep(t) /\ TrackUse(t)
    \/ SwapStep(t) /\ Untracked
    \/ AssignStep(t) /\ Untracked
    \/ Finish(t) /\ Untracked

SpecConc == Init /\ [][NextConc]_vars

\* The service: requests arrive with any payload at any clock reading.
NextService ==
  \E data \in Payloads, now \in 0..MaxClock :
    handle_metrics(data, now) /\ TrackRequest(now)

SpecService == Init /\ [][NextService]_vars

\* ------------------------------------------------------------------ claims
Contains(str, sub) ==
  \E p \in 1..(Len(str) - Len(sub) + 1) :
    SubSeq(str, p, p + Len(sub) - 1) = sub
Count(seq, v) == Cardinality({p \in DOMAIN seq : seq[p] = v})
IsDistinct(seq) == Cardinality(Range(seq)) = Len(seq)
K(t) == Len(conditions[t])
ReturnedBy(t) == pc[t] = "done" /\ outcome[t].kind = "returned"
RaisedBy(t) == pc[t] = "done" /\ outcome[t].kind = "raised"
\* the names "Team 1" .. "Team n"
TeamNames(n) == {"Team " \o ToString(N) : N \in 1..n}
\* the teams of mapping d whose sequence holds condition c at position p
TeamsWith(d, p, c) == {key \in Keys(d) : Lookup(d, key)[p] = c}
Balanced(d, conds, m) ==
  \A p \in 1..Len(conds) : \A c \in Range(conds) :
    Cardinality(TeamsWith(d, p, c)) = m

\* C1  Balance: in the mapping returned for k distinct conditions and
\* num_teams = m*k teams, every condition is held at every position by
\* exactly m teams, whatever the shuffle drew.
C1_Balance ==
  \A t \in AllThreads :
    (ReturnedBy(t) /\ IsDistinct(conditions[t]) /\ num_teams[t] >= 1)
      => Balanced(outcome[t].value, conditions[t], num_teams[t] \div K(t))

\* three conditions, two blocks, a shuffle that moved teams
C1_Witness ==
  /\ ReturnedBy(1) /\ K(1) = 3 /\ num_teams[1] = 6
  /\ IsDistinct(conditions[1])
  /\ team_indices[1] # <<0, 1, 2, 3, 4, 5>>
  /\ Cardinality(TeamsWith(outcome[1].value, 2, "AIPM")) = 2

\* C2  Square validity: the square built for k >= 1 conditions is k by k,
\* holds (i + j) mod k at row i, column j, and each of its rows and columns
\* is a permutation of 0..k-1.
C2_SquareValid ==
  \A t \in AllThreads :
    (pc[t] \in {"shuffle", "swap", "assign"} \/ (ReturnedBy(t) /\ num_teams[t] >= 1))
      => LET sq == square[t]
             k == K(t)
         IN  /\ k >= 1
             /\ Len(sq) = k
             /\ \A i \in 1..k : Len(sq[i]) = k
             /\ \A i \in 1..k : \A j \in 1..k :
                  sq[i][j] = ((i - 1) + (j - 1)) % k
             /\ \A i \in 1..k : IsPermutationOf(sq[i], 0..(k - 1))
             /\ \A j \in 1..k :
                  IsPermutationOf([i \in 1..k |-> sq[i][j]], 0..(k - 1))

C2_Witness ==
  /\ pc[1] = "assign"
  /\ square[1] = <<<<0, 1, 2>>, <<1, 2, 0>>, <<2, 0, 1>>>>

\* C3  Completeness and uniqueness: the returned mapping has num_teams
\* entries and its keys are exactly "Team 1" .. "Team num_teams"; while it
\* is built every iteration adds a new key, none is overwritten.
C3_Complete ==
  \A t \in AllThreads :
    /\ pc[t] = "assign" =>
         /\ Len(assignments[t]) = block[t] * K(t) + row_idx[t]
         /\ Cardinality(Keys(assignments[t])) = Len(assignments[t])
    /\ (ReturnedBy(t) /\ num_teams[t] >= 1) =>
         /\ Len(outcome[t].value) = num_teams[t]
         /\ Cardinality(Keys(outcome[t].value)) = num_teams[t]
         /\ Keys(outcome[t].value) = TeamNames(num_teams[t])

\* two blocks of two, shuffled, all four teams present
C3_Witness ==
  /\ ReturnedBy(1) /\ num_teams[1] = 4 /\ K(1) = 2
  /\ team_indices[1][1] = 3
  /\ Keys(outcome[1].value) = {"Team 1", "Team 2", "Team 3", "Team 4"}

\* C4  Rejection: with k >= 1, a num_teams that is no multiple of k makes
\* the call fail with the ValueError whose message states num_teams and k,
\* and nothing of a mapping is built or returned; a positive multiple of k
\* never fails.
C4_Rejection ==
  \A t \in AllThreads :
    LET n == num_teams[t]
        k == K(t)
    IN  /\ (pc[t] # "idle" /\ k >= 1 /\ n % k # 0) =>
             /\ RaisedBy(t)
             /\ outcome[t].exc = "ValueError"
             /\ Contains(outcome[t].message, "(" \o ToString(n) \o ")")
             /\ Contains(outcome[t].message, "(" \o ToString(k) \o ")")
             /\ outcome[t].value = EmptyDict
             /\ assignments[t] = EmptyDict
        /\ (pc[t] # "idle" /\ k >= 1 /\ n >= 1 /\ n % k = 0) => ~RaisedBy(t)
        /\ (pc[t] = "done" /\ k >= 1 /\ n >= 1 /\ n % k = 0) => ReturnedBy(t)

C4_Witness ==
  /\ RaisedBy(1) /\ num_teams[1] = 5 /\ K(1) = 3
  /\ outcome[1].message =
       "Number of teams (5) must be a multiple of the number of conditions (3)."

\* C8  Block/row mapping: with s the shuffled indices, the team s[b*k + r]
\* is named "Team " + (s[b*k + r] + 1) and its sequence is
\* conditions[(r + j) mod k] for j = 0..k-1; so every sequence has length k
\* and holds each condition slot exactly once.
C8_BlockRow ==
  \A t \in AllThreads :
    (ReturnedBy(t) /\ num_teams[t] >= 1) =>
      LET k == K(t)
          s == team_indices[t]
          d == outcome[t].value
      IN  /\ IsPermutationOf(s, 0..(num_teams[t] - 1))
          /\ \A b \in 0..((num_teams[t] \div k) - 1) : \A r \in 0..(k - 1) :
               LET name == "Team " \o ToString(s[b * k + r + 1] + 1)
               IN  /\ name \in Keys(d)
                   /\ Lookup(d, name) =
                        [j \in 1..k |-> conditions[t][((r + (j - 1)) % k) + 1]]
          /\ \A key \in Keys(d) :
               /\ Len(Lookup(d, key)) = k
               /\ \A c \in Range(conditions[t]) :
                    Count(Lookup(d, key), c) = Count(conditions[t], c)

\* the team shuffled to block 1, row 1 of a two-block design
C8_Witness ==
  /\ ReturnedBy(1) /\ num_teams[1] = 6
  /\ conditions[1] = <<"Control", "HPM", "AIPM">>
  /\ team_indices[1][5] = 0
  /\ Lookup(outcome[1].value, "Team 1") = <<"HPM", "AIPM", "Control">>

SameRunAsRef(t) ==
  /\ ref # None
  /\ callCtx[t].ctx.seed = Some(ref[1].seed)
  /\ num_teams[t] = ref[1].num_teams
  /\ conditions[t] = ref[1].conditions

\* C5  Determinism under a fixed seed: a run that sets a seed and then calls
\* assign_teams returns the mapping that the remembered run with the same
\* seed, num_teams and conditions returned.
C5_SeedDeterminism ==
  \A t \in AllThreads :
    (ReturnedBy(t) /\ Fresh(callCtx[t].ctx) /\ SameRunAsRef(t))
      => AsMapping(outcome[t].value) = AsMapping(ref[1].value)

\* a second run of four teams under the remembered seed 0, shuffled to the
\* order Team 3, Team 1, Team 2, Team 4
C5_Witness ==
  /\ ReturnedBy(1) /\ Fresh(callCtx[1].ctx) /\ SameRunAsRef(1)
  /\ ref[1].seed = 0
  /\ num_teams[1] = 4 /\ K(1) = 2
  /\ team_indices[1] = <<2, 0, 1, 3>>

\* C10  A rejected call has no effect on the random source: the source is
\* in the state in which the call found it, and a valid call that follows
\* rejected calls under a seed returns what the remembered run returned
\* straight after that seed.
C10_RejectNoEffect ==
  \A t \in AllThreads :
    /\ RaisedBy(t) => rng = callCtx[t].rng
    /\ (/\ ReturnedBy(t) /\ SameRunAsRef(t)
        /\ callCtx[t].ctx.rejected /\ ~callCtx[t].ctx.valid)
         => AsMapping(outcome[t].value) = AsMapping(ref[1].value)

C10_Witness ==
  /\ ReturnedBy(1) /\ SameRunAsRef(1)
  /\ callCtx[1].ctx.rejected /\ ~callCtx[1].ctx.valid
  /\ num_teams[1] = 3 /\ K(1) = 3
  /\ team_indices[1] # <<0, 1, 2>>
  /\ rng # callCtx[1].rng

\* C7  Concurrent use: however the draws of concurrent calls interleave on
\* the shared source, each call returns a valid assignment: num_teams
\* distinct team names, each mapped to a row of the square, in balance.
C7_ConcurrentValid ==
  \A t \in AllThreads :
    ReturnedBy(t) =>
      LET d == outcome[t].value
          k == K(t)
          rows == {[j \in 1..k |-> conditions[t][((r + (j - 1)) % k) + 1]] :
                     r \in 0..(k - 1)}
      IN  /\ Len(d) = num_teams[t]
          /\ Keys(d) = TeamNames(num_teams[t])
          /\ \A key \in Keys(d) : Lookup(d, key) \in rows
          /\ Balanced(d, conditions[t], num_teams[t] \div k)

\* both threads returned, each having had the other draw during its shuffle
\* from a seeded source
C7_Witness ==
  /\ ReturnedBy(1) /\ ReturnedBy(2)
  /\ disturbed[1] /\ disturbed[2]
  /\ rng.seeded
  /\ num_teams[1] = 4 /\ num_teams[2] = 3
  /\ team_indices[2] # <<0, 1, 2>>

\* C6  Rate limit: with clock readings that never go back, two non-empty
\* responses are at least 10 seconds apart, and a request less than 10
\* seconds after the most recent non-empty response is answered "".
C6_RateLimit ==
  monotone =>
    /\ \A p, q \in DOMAIN sent : p < q => sent[q] - sent[p] >= 10
    /\ (request.handled /\ request.recent # None
          /\ request.now - request.recent[1] < 10) => response = Some("")

\* two responses, then a request nine seconds after the second, throttled
C6_Witness ==
  /\ monotone /\ Len(sent) = 2 /\ response = Some("")
  /\ request.now - request.recent[1] = 9

\* C9  Throttled requests do not extend the window: a request answered ""
\* leaves _last_response_time as it was; the first request, and a request
\* 10 seconds or more after the most recent non-empty response, is answered
\* with a non-empty message, however many were throttled in between.
C9_NoExtension ==
  request.handled =>
    /\ response = Some("") => _last_response_time = request.before
    /\ (request.recent = None \/ request.now - request.recent[1] >= 10)
         => (response # None /\ response # Some("")
               /\ _last_response_time = Some(request.now))

\* answered after two throttled requests, exactly 10 seconds after the
\* last response
C9_Witness ==
  /\ request.handled /\ request.throttled >= 2
  /\ request.recent # None /\ request.now - request.recent[1] = 10
  /\ response = Some("Received metrics: progress=40, builds=2")
====
